---- MODULE Spec2Model ----
(***************************************************************************)
(* Model of src/src/translate.ts: the translate(language) factory, its     *)
(* getTranslation resolver and the gettext / pgettext / ngettext /         *)
(* npgettext wrappers.                                                     *)
(*                                                                         *)
(* Strings the code takes apart (msgid, language key, translations) are    *)
(* sequences of one-character strings, so that trim() and split("_") are   *)
(* computed.  Context names are only compared and tested for emptiness and *)
(* are TLA+ strings.  An optional JavaScript value (undefined / null) is   *)
(* None, a present one is Some(v).                                         *)
(*                                                                         *)
(* Property reads follow the dictionary's own keys: message ids, language  *)
(* keys and context names are not names of Object.prototype members, and   *)
(* context names are neither array indices nor "length".                   *)
(***************************************************************************)
EXTENDS Integers, Sequences, FiniteSets, TLC

VARIABLES language, request, op, outcome

vars == <<language, request, op, outcome>>

----------------------------------------------------------------------------
(* Bounds of the model *)

\* msgids carry up to MaxPad blanks on each side
MaxPad == 1
\* counts range over 0..MaxCount
MaxCount == 2
\* the muted list grows to MaxMuted keys
MaxMuted == 2

----------------------------------------------------------------------------
(* Optional values and JavaScript truthiness *)

None == <<>>
Some(v) == <<v>>
IsDefined(o) == o # None
Val(o) == o[1]

\* a string is truthy when it is not empty; undefined and null are falsy
TruthyString(o) == IsDefined(o) /\ Val(o) # <<>>
TruthyContext(o) == IsDefined(o) /\ Val(o) # ""

\* obj[key] on a plain object
Get(obj, key) == IF key \in DOMAIN obj THEN Some(obj[key]) ELSE None

----------------------------------------------------------------------------
(* String primitives *)

WhiteSpace == {" ", "\t", "\n"}

\* String.prototype.trim
trim(s) ==
  LET keep == {i \in 1..Len(s) : s[i] \notin WhiteSpace}
  IN IF keep = {} THEN <<>>
     ELSE LET first == CHOOSE i \in keep : \A j \in keep : i <= j
              last == CHOOSE i \in keep : \A j \in keep : j <= i
          IN SubSeq(s, first, last)

\* String.prototype.split(sep): the pieces between the separators
RECURSIVE split(_, _)
split(s, sep) ==
  LET at == {i \in 1..Len(s) : s[i] = sep}
  IN IF at = {} THEN <<s>>
     ELSE LET i == CHOOSE k \in at : \A j \in at : k <= j
          IN <<SubSeq(s, 1, i - 1)>> \o split(SubSeq(s, i + 1, Len(s)), sep)

RECURSIVE Flatten(_)
Flatten(ss) == IF ss = <<>> THEN <<>> ELSE Head(ss) \o Flatten(Tail(ss))

----------------------------------------------------------------------------
(* Collaborators: ./interpolate and ./plurals *)

\* HTML escaping of a parameter value
escapeHtml(v) ==
  [i \in 1..Len(v) |-> CASE v[i] = "<" -> "&lt;"
                         [] v[i] = ">" -> "&gt;"
                         [] v[i] = "&" -> "&amp;"
                         [] OTHER -> v[i]]

\* language.interpolate(message, parameters, disableHtmlEscaping): every
\* placeholder of the message that parameters names is replaced by its value,
\* escaped unless escaping is disabled; the rest of the message is kept.
interpolate(message, parameters, disableHtmlEscaping) ==
  Flatten([i \in 1..Len(message) |->
            IF message[i] \in DOMAIN parameters
            THEN IF disableHtmlEscaping THEN parameters[message[i]]
                 ELSE escapeHtml(parameters[message[i]])
            ELSE <<message[i]>>])

\* plurals.getTranslationIndex(languageCode, n): the plural rule of the
\* language family; an unknown family gets the binary rule.
getTranslationIndex(languageCode, n) ==
  LET family == split(languageCode, "_")[1]
  IN CASE family = <<"a", "r">> ->
            (CASE n = 0 -> 0
               [] n = 1 -> 1
               [] n = 2 -> 2
               [] n > 2 /\ n % 100 >= 3 /\ n % 100 <= 10 -> 3
               [] n > 2 /\ n % 100 >= 11 -> 4
               [] OTHER -> 5)
       [] family = <<"f", "r">> -> IF n > 1 THEN 1 ELSE 0
       [] OTHER -> IF n = 1 THEN 0 ELSE 1

----------------------------------------------------------------------------
(* Translation entries *)

Plain(s) == [kind |-> "string", str |-> s, items |-> <<>>, map |-> <<>>]
PluralList(forms) == [kind |-> "array", str |-> <<>>, items |-> forms, map |-> <<>>]
ContextMap(m) == [kind |-> "object", str |-> <<>>, items |-> <<>>, map |-> m]

\* !translated: only the empty string is falsy, arrays and objects are truthy
TruthyEntry(e) == IsDefined(e) /\ ~(Val(e).kind = "string" /\ Val(e).str = <<>>)

\* translated[context]
ContextOf(entry, context) ==
  IF entry.kind = "object" THEN Get(entry.map, context) ELSE None

\* translated.hasOwnProperty("")
HasVoidContext(entry) == entry.kind = "object" /\ "" \in DOMAIN entry.map

\* translated.length === 1
HasLengthOne(entry) == entry.kind = "array" /\ Len(entry.items) = 1

\* translated[translationIndex], a string or undefined
FormAt(entry, translationIndex) ==
  IF entry.kind = "array" /\ translationIndex + 1 \in 1..Len(entry.items)
  THEN Some(entry.items[translationIndex + 1])
  ELSE None

----------------------------------------------------------------------------
(* getTranslation, step by step *)

\* the language the settings started with, instead of the current one
DefaultLanguageKeyAtStart(lang, languageKey) ==
  IF languageKey = None THEN <<"f", "r", "_", "F", "R">> ELSE Val(languageKey)

\* if (languageKey === undefined) languageKey = language.current
DefaultLanguageKey(lang, languageKey) ==
  IF languageKey = None THEN lang.current ELSE Val(languageKey)

\* the emptiness test made after trimming
IsFalsyAfterTrim(msgid) == ~IsDefined(msgid) \/ trim(Val(msgid)) = <<>>

\* the test of an absent msgid only
IsAbsentMsgid(msgid) == ~IsDefined(msgid)

\* if (!msgid) return ""
IsFalsyMsgid(msgid) == ~TruthyString(msgid)

\* const interp = (message, parameters) => parameters ? language.interpolate(...) : message
interp(message, parameters, disableHtmlEscaping) ==
  IF IsDefined(parameters)
  THEN interpolate(message, Val(parameters), disableHtmlEscaping)
  ELSE message

\* language.muted.indexOf(languageKey) !== -1
IsMuted(lang, languageKey) == \E i \in 1..Len(lang.muted) : lang.muted[i] = languageKey

\* the muted list left out
SilentIgnoringMuted(lang, languageKey) ==
  IF languageKey # <<>> THEN lang.silent ELSE FALSE

\* const silent = languageKey ? language.silent || muted : false
Silent(lang, languageKey) ==
  IF languageKey # <<>> THEN lang.silent \/ IsMuted(lang, languageKey) ELSE FALSE

\* defaultPlural whenever it is given, whatever the plural index
UntranslatedAnyIndex(msgid, n, defaultPlural, languageKey) ==
  IF TruthyString(defaultPlural) /\ getTranslationIndex(languageKey, n) >= 0
  THEN Val(defaultPlural)
  ELSE msgid

\* const untranslated = defaultPlural && index > 0 ? defaultPlural : msgid
Untranslated(msgid, n, defaultPlural, languageKey) ==
  IF TruthyString(defaultPlural) /\ getTranslationIndex(languageKey, n) > 0
  THEN Val(defaultPlural)
  ELSE msgid

\* the keys of language.translations read by
\* pluginTranslations[languageKey] || pluginTranslations[languageKey.split("_")[0]]
TranslationsReads(lang, languageKey) ==
  IF IsDefined(Get(lang.translations, languageKey))
  THEN <<languageKey>>
  ELSE <<languageKey, split(languageKey, "_")[1]>>

\* the exact key only, without the family fallback
LanguageDataExactOnly(lang, languageKey) == Get(lang.translations, languageKey)

\* const translations = pluginTranslations[languageKey] || pluginTranslations[family]
LanguageData(lang, languageKey) ==
  LET reads == TranslationsReads(lang, languageKey)
  IN Get(lang.translations, reads[Len(reads)])

\* the msgid used as it came
TableKeyUntrimmed(msgid) == msgid

\* msgid = msgid.trim()
TableKey(msgid) == trim(msgid)

\* let translated = translations[msgid];
\* if (translated && context) translated = translated[context]
Translated(translations, key, context) ==
  LET translated == Get(translations, key)
  IN IF TruthyEntry(translated) /\ TruthyContext(context)
     THEN ContextOf(Val(translated), Val(context))
     ELSE translated

\* if (!(translated instanceof Array) && translated.hasOwnProperty("")) translated = translated[""]
UnwrapVoidContext(entry) ==
  IF entry.kind # "array" /\ HasVoidContext(entry) THEN entry.map[""] ELSE entry

\* index 0 forced for n = 1 whatever the length of the sequence
TranslationIndexForcedForOne(entry, languageKey, n) ==
  IF n = 1 THEN 0 ELSE getTranslationIndex(languageKey, n)

\* let translationIndex = plurals.getTranslationIndex(languageKey, n);
\* if (translated.length === 1 && n === 1) translationIndex = 0
TranslationIndex(entry, languageKey, n) ==
  IF HasLengthOne(entry) /\ n = 1 THEN 0 ELSE getTranslationIndex(languageKey, n)

\* console.warn(`No translations found for ${languageKey}`)
NoTranslationsWarning(languageKey) ==
  [text |-> "No translations found for", languageKey |-> languageKey,
   msgid |-> <<>>, context |-> None]

\* console.warn(`Untranslated ${languageKey} key found: ${msgid}` [+ ` (with context: ${context})`])
UntranslatedWarning(languageKey, key, context) ==
  [text |-> "Untranslated key found", languageKey |-> languageKey,
   msgid |-> key, context |-> IF TruthyContext(context) THEN context ELSE None]

Warn(silent, warning) == IF silent THEN <<>> ELSE <<warning>>

\* what one call did: its return value or thrown error, the warnings it wrote,
\* the dictionary and table keys it read and its calls of language.interpolate
Returned(value, languageKey, warnings, reads, lookups, parameters, index) ==
  [kind |-> "return", value |-> value, error |-> None, languageKey |-> languageKey,
   warnings |-> warnings, reads |-> reads, lookups |-> lookups,
   interpolations |-> IF IsDefined(parameters) THEN 1 ELSE 0, index |-> index]

\* throw new Error(msgid + " " + translationIndex + " " + language.current + " " + n)
Thrown(lang, key, translationIndex, n, languageKey, reads, lookups) ==
  [kind |-> "throw", value |-> <<>>,
   error |-> Some([msgid |-> key, translationIndex |-> translationIndex,
                   current |-> lang.current, n |-> n]),
   languageKey |-> languageKey, warnings |-> <<>>, reads |-> reads,
   lookups |-> lookups, interpolations |-> 0, index |-> Some(translationIndex)]

getTranslation(lang, msgid, nArg, context, defaultPlural, languageKeyArg, parameters, disableHtmlEscaping) ==
  LET n == IF nArg = None THEN 1 ELSE Val(nArg)
      languageKey == DefaultLanguageKey(lang, languageKeyArg)
  IN IF IsFalsyMsgid(msgid)
     THEN Returned(<<>>, languageKey, <<>>, <<>>, <<>>, None, None)
     ELSE
     LET silent == Silent(lang, languageKey)
         untranslated == Untranslated(Val(msgid), n, defaultPlural, languageKey)
         reads == TranslationsReads(lang, languageKey)
         translations == LanguageData(lang, languageKey)
     IN IF ~IsDefined(translations)
        THEN Returned(interp(untranslated, parameters, disableHtmlEscaping), languageKey,
                      Warn(silent, NoTranslationsWarning(languageKey)),
                      reads, <<>>, parameters, None)
        ELSE
        LET key == TableKey(Val(msgid))
            translated == Translated(Val(translations), key, context)
        IN IF ~TruthyEntry(translated)
           THEN Returned(interp(untranslated, parameters, disableHtmlEscaping), languageKey,
                         Warn(silent, UntranslatedWarning(languageKey, key, context)),
                         reads, <<key>>, parameters, None)
           ELSE
           LET entry == UnwrapVoidContext(Val(translated))
           IN IF entry.kind = "string"
              THEN Returned(interp(entry.str, parameters, disableHtmlEscaping), languageKey,
                            <<>>, reads, <<key>>, parameters, None)
              ELSE
              LET translationIndex == TranslationIndex(entry, languageKey, n)
                  form == FormAt(entry, translationIndex)
              IN IF ~TruthyString(form)
                 THEN Thrown(lang, key, translationIndex, n, languageKey, reads, <<key>>)
                 ELSE Returned(interp(Val(form), parameters, disableHtmlEscaping),
                               languageKey, <<>>, reads, <<key>>, parameters,
                               Some(translationIndex))

\* the wrappers
gettext(lang, msgid, parameters, disableHtmlEscaping) ==
  getTranslation(lang, msgid, None, None, None, None, parameters, disableHtmlEscaping)

pgettext(lang, context, msgid, parameters, disableHtmlEscaping) ==
  getTranslation(lang, msgid, Some(1), context, None, None, parameters, disableHtmlEscaping)

ngettext(lang, msgid, plural, n, parameters, disableHtmlEscaping) ==
  getTranslation(lang, msgid, n, None, plural, None, parameters, disableHtmlEscaping)

npgettext(lang, context, msgid, plural, n, parameters, disableHtmlEscaping) ==
  getTranslation(lang, msgid, n, context, plural, None, parameters, disableHtmlEscaping)

----------------------------------------------------------------------------
(* The compiled dictionary and the inputs *)

Shelf == "shelf"
Placeholder == "%{n}"

\* language keys
ar == <<"a", "r">>
ar_EG == <<"a", "r", "_", "E", "G">>
fr == <<"f", "r">>
fr_FR == <<"f", "r", "_", "F", "R">>
xx_YY == <<"x", "x", "_", "Y", "Y">>

\* every shape of entry: plain strings (one empty), plural lists (one with a
\* single form, one with an empty form, one empty), context maps with and
\* without the void context
Translations ==
  (ar :> ( <<"A">> :> PluralList(<< <<"a", "0">> >>)
        @@ <<"B">> :> PluralList(<< <<"b", "0">>, <<"b", "1", Placeholder>>, <<"b", "2">> >>)
        @@ <<"C">> :> ContextMap("" :> Plain(<<"c">>) @@ Shelf :> Plain(<<"c", "s">>))
        @@ <<"D">> :> Plain(<<>>) ))
  @@
  (fr :> ( <<"A">> :> Plain(<<"p", Placeholder>>)
        @@ <<"B">> :> PluralList(<< <<"g", "0">>, <<>> >>)
        @@ <<"C">> :> ContextMap(Shelf :> Plain(<<"o", "s">>))
        @@ <<"D">> :> ContextMap("" :> Plain(<<>>)) ))
  @@
  (fr_FR :> ( <<"A">> :> ContextMap("" :> Plain(<<"w">>))
           @@ <<"B">> :> ContextMap("" :> PluralList(<< <<"v", "0">>, <<"v", "1">> >>))
           @@ <<"C">> :> PluralList(<<>>)
           @@ <<"D">> :> ContextMap("" :> PluralList(<< <<"m">> >>)
                                    @@ Shelf :> PluralList(<< <<"t", "0">>, <<"t", "1">> >>)) ))

RECURSIVE Blanks(_)
Blanks(k) == IF k = 0 THEN <<>> ELSE <<" ">> \o Blanks(k - 1)

\* the message ids: the keys of the tables, a key of no table and the empty
\* string, each with blanks around it
Cores == {<<"A">>, <<"B">>, <<"C">>, <<"D">>, <<"X">>, <<>>}
Msgids == {Blanks(i) \o c \o Blanks(j) : i \in 0..MaxPad, j \in 0..MaxPad, c \in Cores}

LanguageKeys == {ar_EG, fr, fr_FR, xx_YY, <<>>}
Counts == 0..MaxCount
Contexts == {"", Shelf}
Plurals == {<<>>, <<"P", Placeholder>>}
Parameters == {Placeholder :> <<"<", "1">>}
MutedLists == {<<>>, <<fr, xx_YY>>}

Optional(S) == {None} \cup {Some(v) : v \in S}

Languages ==
  [current : LanguageKeys, translations : {Translations},
   muted : MutedLists, silent : BOOLEAN]

Requests ==
  [msgid : Optional(Msgids), n : Optional(Counts), context : Optional(Contexts),
   defaultPlural : Optional(Plurals), languageKey : Optional({ar}),
   parameters : Optional(Parameters), disableHtmlEscaping : BOOLEAN]

NoOutcome == Returned(<<>>, <<>>, <<>>, <<>>, <<>>, None, None)

----------------------------------------------------------------------------
(* The calls, each on settings and arguments drawn at the start *)

Init ==
  /\ language \in Languages
  /\ request \in Requests
  /\ op = "none"
  /\ outcome = NoOutcome

\* the arguments as getTranslation receives them
Arguments(msgid, n, context, defaultPlural, languageKey, parameters, disableHtmlEscaping) ==
  [msgid |-> msgid, n |-> n, context |-> context, defaultPlural |-> defaultPlural,
   languageKey |-> languageKey, parameters |-> parameters,
   disableHtmlEscaping |-> disableHtmlEscaping]

CallGetTranslation(r) ==
  /\ op' = "getTranslation"
  /\ request' = r
  /\ outcome' = getTranslation(language, r.msgid, r.n, r.context, r.defaultPlural,
                               r.languageKey, r.parameters, r.disableHtmlEscaping)
  /\ UNCHANGED language

CallGettext(msgid, parameters, disableHtmlEscaping) ==
  /\ op' = "gettext"
  /\ request' = Arguments(msgid, None, None, None, None, parameters, disableHtmlEscaping)
  /\ outcome' = gettext(language, msgid, parameters, disableHtmlEscaping)
  /\ UNCHANGED language

CallPgettext(context, msgid, parameters, disableHtmlEscaping) ==
  /\ op' = "pgettext"
  /\ request' = Arguments(msgid, Some(1), context, None, None, parameters, disableHtmlEscaping)
  /\ outcome' = pgettext(language, context, msgid, parameters, disableHtmlEscaping)
  /\ UNCHANGED language

CallNgettext(msgid, plural, n, parameters, disableHtmlEscaping) ==
  /\ op' = "ngettext"
  /\ request' = Arguments(msgid, n, None, plural, None, parameters, disableHtmlEscaping)
  /\ outcome' = ngettext(language, msgid, plural, n, parameters, disableHtmlEscaping)
  /\ UNCHANGED language

CallNpgettext(context, msgid, plural, n, parameters, disableHtmlEscaping) ==
  /\ op' = "npgettext"
  /\ request' = Arguments(msgid, n, context, plural, None, parameters, disableHtmlEscaping)
  /\ outcome' = npgettext(language, context, msgid, plural, n, parameters, disableHtmlEscaping)
  /\ UNCHANGED language

\* the wrappers take part when the drawn arguments are ones they can pass on
GetTranslation == op = "none" /\ CallGetTranslation(request)

Gettext ==
  /\ op = "none"
  /\ request.n = None /\ request.context = None
  /\ request.defaultPlural = None /\ request.languageKey = None
  /\ CallGettext(request.msgid, request.parameters, request.disableHtmlEscaping)

Pgettext ==
  /\ op = "none"
  /\ request.n = Some(1) /\ IsDefined(request.context)
  /\ request.defaultPlural = None /\ request.languageKey = None
  /\ CallPgettext(request.context, request.msgid, request.parameters,
                  request.disableHtmlEscaping)

Ngettext ==
  /\ op = "none"
  /\ IsDefined(request.n) /\ request.context = None
  /\ IsDefined(request.defaultPlural) /\ request.languageKey = None
  /\ CallNgettext(request.msgid, request.defaultPlural, request.n, request.parameters,
                  request.disableHtmlEscaping)

Npgettext ==
  /\ op = "none"
  /\ IsDefined(request.n) /\ IsDefined(request.context)
  /\ IsDefined(request.defaultPlural) /\ request.languageKey = None
  /\ CallNpgettext(request.context, request.msgid, request.defaultPlural, request.n,
                   request.parameters, request.disableHtmlEscaping)

Next == GetTranslation \/ Gettext \/ Pgettext \/ Ngettext \/ Npgettext

Spec == Init /\ [][Next]_vars

----------------------------------------------------------------------------
(* The vocabulary of the properties, read off the request and the settings *)

Called == op # "none"

\* the language key of the request: the override, or else settings.current
UsedKey == IF request.languageKey = None THEN language.current ELSE Val(request.languageKey)

\* the part of a language key before its first "_"
FamilyOf(k) ==
  IF \E i \in 1..Len(k) : k[i] = "_"
  THEN SubSeq(k, 1, (CHOOSE i \in 1..Len(k) : k[i] = "_" /\ \A j \in 1..(i - 1) : k[j] # "_") - 1)
  ELSE k

HasTable(k) == k \in DOMAIN language.translations
LanguageMissing == ~HasTable(UsedKey) /\ ~HasTable(FamilyOf(UsedKey))
TableName == IF HasTable(UsedKey) THEN UsedKey ELSE FamilyOf(UsedKey)
Table == language.translations[TableName]

RECURSIVE StripLeft(_)
StripLeft(s) == IF s # <<>> /\ Head(s) \in WhiteSpace THEN StripLeft(Tail(s)) ELSE s
RECURSIVE StripRight(_)
StripRight(s) ==
  IF s # <<>> /\ s[Len(s)] \in WhiteSpace THEN StripRight(SubSeq(s, 1, Len(s) - 1)) ELSE s

NonEmptyMsgid == request.msgid # None /\ Val(request.msgid) # <<>>
Msgid == Val(request.msgid)
Trimmed == StripLeft(StripRight(Msgid))
Count == IF request.n = None THEN 1 ELSE Val(request.n)
ContextRequested == request.context # None /\ Val(request.context) # ""

\* the text after interpolation of the request's parameters
Interpolated(text) ==
  IF request.parameters = None THEN text
  ELSE interpolate(text, Val(request.parameters), request.disableHtmlEscaping)

\* the table has an entry for the trimmed msgid
KeyPresent == ~LanguageMissing /\ Trimmed \in DOMAIN Table
Entry == Table[Trimmed]

\* the entry under the requested context, when there is one
UnderContext ==
  IF ~ContextRequested THEN Some(Entry)
  ELSE IF Entry.kind = "object" /\ Val(request.context) \in DOMAIN Entry.map
       THEN Some(Entry.map[Val(request.context)])
       ELSE None

\* the key, with the requested context, is missing from the table
KeyMissing == ~LanguageMissing /\ (~KeyPresent \/ UnderContext = None)

\* the lookup finds a translation: a non-empty entry under the requested context
Found ==
  /\ KeyPresent
  /\ UnderContext # None
  /\ ~(Val(UnderContext).kind = "string" /\ Val(UnderContext).str = <<>>)

\* the entry resolved for the request: under the context, the void context unwrapped
Resolved ==
  LET e == Val(UnderContext)
  IN IF e.kind = "object" /\ "" \in DOMAIN e.map THEN e.map[""] ELSE e

\* the request with another msgid / without a context
WithMsgid(m) == [request EXCEPT !.msgid = Some(m)]
WithoutContext == [request EXCEPT !.context = None]

\* the settings with the entry of the trimmed msgid replaced
WithEntry(e) ==
  [language EXCEPT !.translations =
     [language.translations EXCEPT ![TableName] = [Table EXCEPT ![Trimmed] = e]]]

\* getTranslation on given settings and request
Resolve(lang, r) ==
  getTranslation(lang, r.msgid, r.n, r.context, r.defaultPlural, r.languageKey,
                 r.parameters, r.disableHtmlEscaping)

SameResult(a, b) == a.kind = b.kind /\ a.value = b.value
SameWarnings(a, b) == a.warnings = b.warnings

----------------------------------------------------------------------------
(* C1: for a non-empty msgid, when neither the language key nor its family  *)
(* is in the dictionary, or the language table has no entry for the         *)
(* (trimmed) msgid, getTranslation does not throw and returns the           *)
(* interpolation of the untranslated text: defaultPlural when one is given  *)
(* (a non-empty string) and the plural index of (languageKey, count) is     *)
(* greater than 0, the original msgid otherwise.                            *)

C1_Untranslated ==
  IF request.defaultPlural # None /\ Val(request.defaultPlural) # <<>>
     /\ getTranslationIndex(UsedKey, Count) > 0
  THEN Val(request.defaultPlural)
  ELSE Msgid

\* C1: a non-empty msgid with no table for the language, or no entry in the
\* table, returns the interpolated untranslated text and does not throw
C1_UntranslatedFallback ==
  (Called /\ NonEmptyMsgid /\ (LanguageMissing \/ ~KeyPresent))
    => /\ outcome.kind = "return"
       /\ outcome.value = Interpolated(C1_Untranslated)

C1_Witness ==
  /\ Called /\ NonEmptyMsgid /\ LanguageMissing
  /\ request.defaultPlural = Some(<<"P", Placeholder>>)
  /\ Count = 2
  /\ request.parameters # None /\ ~request.disableHtmlEscaping
  /\ outcome.value = <<"P", "&lt;", "1">>

----------------------------------------------------------------------------
(* C2: getTranslation throws exactly when the entry resolved for the        *)
(* request is a plural-form sequence that has no non-empty string at the    *)
(* computed plural index, whether or not warnings are silenced; no other    *)
(* request makes it throw.                                                  *)

C2_PluralIndex ==
  IF Len(Resolved.items) = 1 /\ Count = 1 THEN 0 ELSE getTranslationIndex(UsedKey, Count)

C2_MalformedPlural ==
  /\ NonEmptyMsgid /\ KeyPresent /\ UnderContext # None
  /\ Resolved.kind = "array"
  /\ \/ C2_PluralIndex + 1 \notin 1..Len(Resolved.items)
     \/ Resolved.items[C2_PluralIndex + 1] = <<>>

\* C2: a call throws exactly when the resolved entry is a plural list with no
\* non-empty form at the computed index
C2_ThrowsOnlyOnMalformedPlural ==
  Called => (outcome.kind = "throw" <=> C2_MalformedPlural)

\* what the code does instead: it also throws for a context map without the
\* void context when no context is requested
C2_ContextMapWithoutVoid ==
  /\ NonEmptyMsgid /\ KeyPresent /\ ~ContextRequested
  /\ Entry.kind = "object" /\ "" \notin DOMAIN Entry.map

C2_ThrowsInTheCode ==
  Called => (outcome.kind = "throw" <=> (C2_MalformedPlural \/ C2_ContextMapWithoutVoid))

----------------------------------------------------------------------------
(* C3: warnings are gated by silent = settings.silent OR the language key   *)
(* is in the muted list: a call emits no warning when silent holds, exactly *)
(* one warning when silent does not hold and the language (with its family  *)
(* fallback) or the key (with the requested context) is missing, and no     *)
(* warning when it finds a translation.                                     *)

C3_ClaimedSilent ==
  language.silent \/ \E i \in 1..Len(language.muted) : language.muted[i] = UsedKey

\* C3 as claimed: no warning when settings.silent or muted, exactly one when
\* not silent and the language or key is missing, none when found
C3_WarningsGatedBySilent ==
  (Called /\ NonEmptyMsgid)
    => /\ C3_ClaimedSilent => outcome.warnings = <<>>
       /\ (~C3_ClaimedSilent /\ (LanguageMissing \/ KeyMissing)) => Len(outcome.warnings) = 1
       /\ Found => outcome.warnings = <<>>

\* nothing is silenced for an empty language key
C3_SilentInTheCode == UsedKey # <<>> /\ C3_ClaimedSilent

\* C3 as amended: the same, with silent false for an empty language key
C3_WarningsGatedUnlessEmptyKey ==
  (Called /\ NonEmptyMsgid)
    => /\ C3_SilentInTheCode => outcome.warnings = <<>>
       /\ (~C3_SilentInTheCode /\ (LanguageMissing \/ KeyMissing)) => Len(outcome.warnings) = 1
       /\ Found => outcome.warnings = <<>>

C3_Witness ==
  /\ Called /\ NonEmptyMsgid
  /\ UsedKey = xx_YY /\ LanguageMissing
  /\ ~language.silent /\ language.muted = <<fr, xx_YY>>
  /\ outcome.kind = "return" /\ outcome.warnings = <<>>

----------------------------------------------------------------------------
(* C4: a msgid that is empty after trimming (a msgid made only of           *)
(* whitespace, for example) short-circuits getTranslation: it returns ""    *)
(* without looking up the dictionary and without emitting a warning.        *)

C4_ShortCircuit ==
  /\ outcome.kind = "return" /\ outcome.value = <<>>
  /\ outcome.reads = <<>> /\ outcome.lookups = <<>>
  /\ outcome.warnings = <<>>

\* C4 as claimed: a msgid that is empty after trimming returns "" with no
\* dictionary lookup and no warning
C4_EmptyAfterTrimShortCircuits ==
  (Called /\ request.msgid # None /\ Trimmed = <<>>) => C4_ShortCircuit

\* C4 as amended: the empty msgid short-circuits, a blank one is looked up
C4_OnlyEmptyShortCircuits ==
  (Called /\ request.msgid # None /\ Trimmed = <<>>)
    => IF Msgid = <<>>
       THEN C4_ShortCircuit
       ELSE /\ outcome.reads # <<>>
            /\ ~LanguageMissing => outcome.lookups = << <<>> >>

C4_Witness ==
  /\ Called /\ request.msgid = Some(<<" ">>)
  /\ UsedKey = fr /\ ~language.silent /\ request.parameters = None
  /\ request.defaultPlural = None
  /\ outcome.reads = <<fr>> /\ outcome.lookups = << <<>> >>
  /\ outcome.value = <<" ">> /\ Len(outcome.warnings) = 1

----------------------------------------------------------------------------
(* C5: for an empty or absent msgid getTranslation returns "" regardless of *)
(* count, context, defaultPlural, language key, parameters, escaping flag   *)
(* and dictionary content; it emits no warning and does not call the        *)
(* interpolator.                                                            *)

\* C5: an empty or absent msgid returns "", with no warning and no call of
\* the interpolator, whatever the other arguments and the settings
C5_EmptyMsgidReturnsEmpty ==
  (Called /\ ~NonEmptyMsgid)
    => /\ outcome.kind = "return" /\ outcome.value = <<>>
       /\ outcome.warnings = <<>>
       /\ outcome.interpolations = 0

C5_Witness ==
  /\ Called /\ request.msgid = Some(<<>>)
  /\ request.parameters # None /\ request.defaultPlural = Some(<<"P", Placeholder>>)
  /\ Count = 2 /\ LanguageMissing /\ ~language.silent /\ language.muted = <<>>
  /\ outcome.value = <<>> /\ outcome.warnings = <<>> /\ outcome.interpolations = 0

----------------------------------------------------------------------------
(* C6: for an entry that is a context map holding a value under the empty   *)
(* key "" and a value under a context c, getTranslation with no context     *)
(* requested resolves to the value under "" and with context c to the value *)
(* under c; a context map whose only key is "" resolves, when no context is *)
(* requested, exactly as the bare string or plural list it wraps.           *)

C6_OtherContexts == DOMAIN Entry.map \ {""}

\* C6: no context resolves to the value under "", context c to the value
\* under c, and a map holding only "" resolves as the bare value it wraps
C6_ContextDisambiguation ==
  (Called /\ NonEmptyMsgid /\ KeyPresent /\ Entry.kind = "object" /\ "" \in DOMAIN Entry.map)
    => /\ (C6_OtherContexts # {} /\ ~ContextRequested)
            => SameResult(outcome, Resolve(WithEntry(Entry.map[""]), request))
       /\ (ContextRequested /\ Val(request.context) \in C6_OtherContexts)
            => SameResult(outcome,
                          Resolve(WithEntry(Entry.map[Val(request.context)]), WithoutContext))
       /\ (C6_OtherContexts = {} /\ ~ContextRequested)
            => /\ SameResult(outcome, Resolve(WithEntry(Entry.map[""]), request))
               /\ SameWarnings(outcome, Resolve(WithEntry(Entry.map[""]), request))

\* what the code does: the same, unless the value under "" is the empty string
C6_DisambiguationOfNonEmpty ==
  (Called /\ NonEmptyMsgid /\ KeyPresent /\ Entry.kind = "object" /\ "" \in DOMAIN Entry.map
     /\ Entry.map[""] # Plain(<<>>))
    => /\ ~ContextRequested
            => /\ SameResult(outcome, Resolve(WithEntry(Entry.map[""]), request))
               /\ SameWarnings(outcome, Resolve(WithEntry(Entry.map[""]), request))
       /\ (ContextRequested /\ Val(request.context) \in C6_OtherContexts)
            => SameResult(outcome,
                          Resolve(WithEntry(Entry.map[Val(request.context)]), WithoutContext))

----------------------------------------------------------------------------
(* C7: when the dictionary has no table for the requested language key but  *)
(* has one for its family code, getTranslation resolves the msgid against   *)
(* the family table and emits no 'no translations' warning; when it has a   *)
(* table for the exact language key, that table is used and the family      *)
(* table is never consulted.                                                *)

\* the settings with the family table also stored under the exact key
C7_WithExactTable ==
  [language EXCEPT !.translations =
     (UsedKey :> language.translations[FamilyOf(UsedKey)]) @@ language.translations]

\* the settings without the family table
C7_WithoutFamilyTable ==
  [language EXCEPT !.translations =
     [k \in DOMAIN language.translations \ {FamilyOf(UsedKey)} |-> language.translations[k]]]

\* C7: the family table stands in for a missing exact table, without a
\* 'no translations' warning; an exact table is used alone
C7_LocaleFallback ==
  (Called /\ NonEmptyMsgid)
    => /\ (~HasTable(UsedKey) /\ HasTable(FamilyOf(UsedKey)))
            => /\ SameResult(outcome, Resolve(C7_WithExactTable, request))
               /\ SameWarnings(outcome, Resolve(C7_WithExactTable, request))
               /\ outcome.lookups = Resolve(C7_WithExactTable, request).lookups
               /\ \A i \in 1..Len(outcome.warnings) :
                     outcome.warnings[i].text # "No translations found for"
       /\ HasTable(UsedKey)
            => /\ outcome.reads = <<UsedKey>>
               /\ FamilyOf(UsedKey) # UsedKey
                    => /\ SameResult(outcome, Resolve(C7_WithoutFamilyTable, request))
                       /\ SameWarnings(outcome, Resolve(C7_WithoutFamilyTable, request))

C7_Witness ==
  /\ Called /\ UsedKey = ar_EG /\ ~HasTable(ar_EG) /\ HasTable(ar)
  /\ request.msgid = Some(<<"A">>) /\ Count = 1 /\ ~ContextRequested
  /\ request.parameters = None
  /\ outcome.reads = <<ar_EG, ar>>
  /\ outcome.value = <<"a", "0">> /\ outcome.warnings = <<>>

----------------------------------------------------------------------------
(* C8: for an entry that is a plural-form sequence the index used is 0 when *)
(* the sequence has exactly one element and count is exactly 1, whatever    *)
(* the plural selector returns for (languageKey, 1); in every other case it *)
(* is exactly the selector's index for (languageKey, count).                *)

\* C8: the index is 0 for a one-form sequence and count 1, else the
\* selector's index for (languageKey, count)
C8_PluralIndexRule ==
  (Called /\ NonEmptyMsgid /\ KeyPresent /\ UnderContext # None /\ Resolved.kind = "array")
    => outcome.index =
         Some(IF Len(Resolved.items) = 1 /\ Count = 1
              THEN 0
              ELSE getTranslationIndex(UsedKey, Count))

C8_Witness ==
  /\ Called /\ UsedKey = ar_EG /\ request.msgid = Some(<<"A">>)
  /\ ~ContextRequested /\ request.parameters = None
  /\ Count = 1 /\ getTranslationIndex(UsedKey, 1) = 1
  /\ Len(Resolved.items) = 1
  /\ outcome.index = Some(0) /\ outcome.value = <<"a", "0">>

----------------------------------------------------------------------------
(* C9: for every msgid m whose trimmed form t is a key of the language      *)
(* table, getTranslation(m, ...) returns the same string and emits the same *)
(* warnings as getTranslation(t, ...), all other arguments equal.           *)

C9_TrimmedCall == Resolve(language, WithMsgid(Trimmed))

----------------------------------------------------------------------------
(* Language switches interleaved with lookups *)

InitialLanguage == fr_FR
MutableKeys == {ar_EG, xx_YY}

SwitchMsgids == {Some(<<"A">>), Some(<<" ", "B">>), Some(<<"X">>)}
SwitchCounts == {None, Some(2)}
SwitchContexts == {None, Some(Shelf)}
SwitchPlurals == {None, Some(<<"P", Placeholder>>)}
SwitchParameters == {None}

SwitchRequests ==
  [msgid : SwitchMsgids, n : SwitchCounts, context : SwitchContexts,
   defaultPlural : SwitchPlurals, languageKey : Optional({ar}),
   parameters : SwitchParameters, disableHtmlEscaping : {FALSE}]

InitSwitch ==
  /\ language = [current |-> InitialLanguage, translations |-> Translations,
                 muted |-> <<>>, silent |-> FALSE]
  /\ request = Arguments(None, None, None, None, None, None, FALSE)
  /\ op = "none"
  /\ outcome = NoOutcome

\* a change of the settings, between two lookups; the last outcome is dropped
Settings(new) ==
  /\ language' = new
  /\ op' = "none"
  /\ outcome' = NoOutcome
  /\ UNCHANGED request

\* language.current = key
SetCurrent(key) == Settings([language EXCEPT !.current = key])

\* language.silent = flag
SetSilent(flag) == Settings([language EXCEPT !.silent = flag])

\* language.muted.push(key)
Mute(key) ==
  /\ Len(language.muted) < MaxMuted
  /\ Settings([language EXCEPT !.muted = Append(@, key)])

\* language.muted.pop()
Unmute ==
  /\ language.muted # <<>>
  /\ Settings([language EXCEPT !.muted = SubSeq(@, 1, Len(@) - 1)])

NextSwitch ==
  \/ \E key \in LanguageKeys : SetCurrent(key)
  \/ \E flag \in BOOLEAN : SetSilent(flag)
  \/ \E key \in MutableKeys : Mute(key)
  \/ Unmute
  \/ \E r \in SwitchRequests : CallGetTranslation(r)
  \/ \E m \in SwitchMsgids, p \in SwitchParameters : CallGettext(m, p, FALSE)
  \/ \E m \in SwitchMsgids, p \in SwitchParameters : CallPgettext(Some(Shelf), m, p, FALSE)
  \/ \E m \in SwitchMsgids, p \in SwitchParameters :
        CallNgettext(m, Some(<<"P", Placeholder>>), Some(2), p, FALSE)
  \/ \E m \in SwitchMsgids, p \in SwitchParameters :
        CallNpgettext(Some(Shelf), m, Some(<<"P", Placeholder>>), Some(2), p, FALSE)

SpecSwitch == InitSwitch /\ [][NextSwitch]_vars

----------------------------------------------------------------------------
(* C10: across any sequence of language switches interleaved with lookups,  *)
(* no lookup changes settings.current, the dictionary, the muted list or    *)
(* the silent flag, and a lookup without a language override resolves       *)
(* against settings.current as it is at the call: its result is the result  *)
(* of the same request, made for that language, on fresh settings.          *)

\* fresh settings holding the values the settings have now
C10_Fresh ==
  [current |-> language.current, translations |-> language.translations,
   muted |-> language.muted, silent |-> language.silent]

C10_LookupStep ==
  op' # "none"
    => /\ language' = language
       /\ request'.languageKey = None
            => /\ outcome'.languageKey = language.current
               /\ outcome' = Resolve(C10_Fresh,
                                     [request' EXCEPT !.languageKey = Some(language.current)])

\* C10: a lookup step changes no setting, and without an override it resolves
\* against settings.current of that moment
C10_LookupsReadCurrentSettings == [][C10_LookupStep]_vars

C10_Witness ==
  /\ op = "gettext" /\ request.msgid = Some(<<"A">>)
  /\ language.current = ar_EG /\ language.current # InitialLanguage
  /\ language.muted = <<xx_YY, ar_EG>> /\ language.silent
  /\ outcome.languageKey = ar_EG
  /\ outcome.value = <<"a", "0">>

====
